---- MODULE Spec2Model ----
(***************************************************************************)
(* Lunar Dome (src/src/lunardome.py): the DomeState economy, the random    *)
(* events and the main game loop, as a state machine.                      *)
(*                                                                         *)
(* Numbers.  The difficulty multipliers 1, 1.25, 1.5, 1.75, 2 are kept in  *)
(* quarters (4, 5, 6, 7, 8), so every product with the difficulty is an    *)
(* exact integer number of quarters; int() of a positive value is the      *)
(* floor.  All these multipliers and all the products the program forms    *)
(* with them are exact in binary floating point, except the growth factor  *)
(* 1 + k/100 of end_turn, which is modelled with its rounding (see         *)
(* grow_colonists).                                                        *)
(***************************************************************************)
EXTENDS Integers, Sequences, FiniteSets, TLC

VARIABLES
    pc,           \* position of lunar_dome() in its loops
    dome,         \* the DomeState object of the current game
    turn_event,   \* the event random_event applied in this turn, if any
    score_table,  \* ScoreTable.scores
    score_file    \* the file scores.csv

vars == <<pc, dome, turn_event, score_table, score_file>>

(***************************************************************************)
(* Bounds of the model.                                                    *)
(***************************************************************************)
\* lunar_dome starts a turn only while dome.year < MaxYear
MaxYear == 3
\* the end_turn-only run makes end_turn calls only while dome.year < MaxTurns
MaxTurns == 6
\* a score file written by hand holds up to MaxLines lines
MaxLines == 11

(***************************************************************************)
(* Constants of the program.                                               *)
(***************************************************************************)
MAX_INTEGRITY == 100

\* DIFFICULTY_MULTIPLIER = [1, 1.25, 1.5, 1.75, 2], in quarters, 1-indexed
DIFFICULTY_MULTIPLIER == <<4, 5, 6, 7, 8>>

\* the difficulty indices choose_difficulty() can return
DifficultyIndex == 0..4

\* int(difficulty)
int_difficulty(d4) == d4 \div 4

\* random.randrange(lo, hi): any integer of [lo, hi)
randrange(lo, hi) == lo..(hi - 1)

\* the two extreme outcomes of random.randrange(lo, hi)
extremes(lo, hi) == {lo, hi - 1}

\* The random source of one call, taken to run low or high: every
\* random.randrange(lo, hi) of a call that runs low returns lo, of a call
\* that runs high returns hi - 1.
Luck == {"low", "high"}
draw(luck, lo, hi) == IF luck = "low" THEN lo ELSE hi - 1

(***************************************************************************)
(* DomeState: property setters.                                            *)
(***************************************************************************)
\* credits.setter with the peak following every assignment
set_credits_peak_follows(s, value) ==
    LET c == IF value > 0 THEN value ELSE 0
    IN  [s EXCEPT !.credits = c, !.peak_credits = c]

\* credits.setter; value is an integer
set_credits(s, value) ==
    LET c == IF value > 0 THEN value ELSE 0
    IN  [s EXCEPT !.credits = c,
                  !.peak_credits = IF c > @ THEN c ELSE @]

\* soup.setter; value4 is the assigned value in quarters
set_soup(s, value4) ==
    [s EXCEPT !.soup = IF value4 > 0 THEN value4 \div 4 ELSE 0]

\* oxygen.setter without its clamp
set_oxygen_unclamped(s, value4) ==
    [s EXCEPT !.oxygen = value4 \div 4]

\* oxygen.setter; value4 is the assigned value in quarters
set_oxygen(s, value4) ==
    [s EXCEPT !.oxygen = IF value4 > 0 THEN value4 \div 4 ELSE 0]

\* integrity.setter; value4 is the assigned value in quarters
set_integrity(s, value4) ==
    [s EXCEPT !.integrity =
        IF value4 > 0 /\ value4 <= 4 * 100 THEN value4 \div 4
        ELSE IF value4 > 4 * 100 THEN 100
        ELSE 0]

(***************************************************************************)
(* DomeState: derived properties.                                          *)
(***************************************************************************)
\* maintenance_cost with the difficulty truncated before the product
maintenance_cost_int_difficulty(s) ==
    ((MAX_INTEGRITY - s.integrity) * int_difficulty(s.difficulty)) * 100

\* int((MAX_INTEGRITY - integrity) * difficulty) * 100
maintenance_cost(s) ==
    (((MAX_INTEGRITY - s.integrity) * s.difficulty) \div 4) * 100

\* is_medium_or_lower_difficulty: difficulty <
\* DIFFICULTY_MULTIPLIER[int(len(DIFFICULTY_MULTIPLIER) / 2)], the list
\* 0-indexed in the program and 1-indexed here
is_medium_or_lower_difficulty(s) ==
    s.difficulty < DIFFICULTY_MULTIPLIER[(Len(DIFFICULTY_MULTIPLIER) \div 2) + 1]

\* is_viable without the oxygen test
is_viable_no_oxygen(s) ==
    IF s.soup <= 0 \/ s.integrity <= 0 THEN FALSE ELSE TRUE

is_viable(s) ==
    IF s.oxygen <= 0 \/ s.soup <= 0 \/ s.integrity <= 0 THEN FALSE ELSE TRUE

(***************************************************************************)
(* Population growth of end_turn:                                          *)
(*     increase_percent = 1 + k / 100                                      *)
(*     colonists = int(colonists * increase_percent)                       *)
(* in IEEE-754 double arithmetic.  The double 1 + k/100 is M / 2^52 for an *)
(* integer M, and IncreasePercentErr[k] = 2^52 * (100 + k) - 100 * M says  *)
(* how far it lies below (positive) or above (negative) the exact          *)
(* (100 + k)/100, in units of 2^-52 / 100.  The product with colonists is  *)
(* rounded to the nearest double; it can only fall on the other side of an *)
(* integer when the exact c * (100 + k) / 100 is an integer N, and then it *)
(* is rounded to the double just below N exactly when the real product     *)
(* lies more than half a spacing below N.                                  *)
(***************************************************************************)
IncreasePercentErr ==
    << -4, -8, -12, -16, -20, -24, -28, -32, -36, -40,
       -44, -48, 48, -56, 40, 36, 32, 28, 24 >>

\* the largest power of two strictly below n (n >= 2)
RECURSIVE Pow2Below(_)
Pow2Below(n) == IF n <= 2 THEN 1 ELSE 2 * Pow2Below((n + 1) \div 2)

grow_colonists(c, k) ==
    LET num == c * (100 + k)
        N   == num \div 100
    IN  IF num % 100 # 0 \/ N < 2 THEN N
        ELSE IF c * IncreasePercentErr[k] > 50 * Pow2Below(N) THEN N - 1
        ELSE N

(***************************************************************************)
(* DomeState.end_turn with its four draws.                                 *)
(***************************************************************************)
\* end_turn drawing the sculpture_cost again as well
end_turn_prices_reroll_cost(s, soup_cost, oxygen_cost, value_draw) ==
    [s EXCEPT !.soup_cost = soup_cost,
              !.oxygen_cost = oxygen_cost,
              !.sculpture_cost = soup_cost - 1,
              !.sculpture_value = oxygen_cost * s.sculpture_cost + value_draw]

\* the prices re-rolled by every end_turn call
end_turn_prices(s, soup_cost, oxygen_cost, value_draw) ==
    [s EXCEPT !.soup_cost = soup_cost,
              !.oxygen_cost = oxygen_cost,
              !.sculpture_value = oxygen_cost * s.sculpture_cost + value_draw]

\* the growth made before the consumption and the decay
end_turn_colony_growth_first(s, k) ==
    LET s1 == [s EXCEPT !.colonists = grow_colonists(s.colonists, k)]
        s2 == set_soup(s1,
                  4 * (s1.soup - s1.colonists * s1.soup_required_per_colonist))
        s3 == set_oxygen(s2,
                  4 * (s2.oxygen
                       - s2.colonists * s2.oxygen_required_per_colonist))
    IN  set_integrity(s3, 4 * (s3.integrity - (s3.colonists \div 50)))

\* the decay taken as one point per 100 colonists
end_turn_colony_decay_per_100(s, k) ==
    LET s2 == set_soup(s,
                  4 * (s.soup - s.colonists * s.soup_required_per_colonist))
        s3 == set_oxygen(s2,
                  4 * (s2.oxygen
                       - s2.colonists * s2.oxygen_required_per_colonist))
        s4 == set_integrity(s3, 4 * (s3.integrity - (s3.colonists \div 100)))
    IN  [s4 EXCEPT !.colonists = grow_colonists(s4.colonists, k)]

\* consumption, decay and growth of a turn after the first year
end_turn_colony(s, k) ==
    LET s2 == set_soup(s,
                  4 * (s.soup - s.colonists * s.soup_required_per_colonist))
        s3 == set_oxygen(s2,
                  4 * (s2.oxygen
                       - s2.colonists * s2.oxygen_required_per_colonist))
        s4 == set_integrity(s3, 4 * (s3.integrity - (s3.colonists \div 50)))
    IN  [s4 EXCEPT !.colonists = grow_colonists(s4.colonists, k)]

\* end_turn without the test of the first year
end_turn_unguarded(s, soup_cost, oxygen_cost, value_draw, k) ==
    LET s1 == end_turn_prices(s, soup_cost, oxygen_cost, value_draw)
        s2 == end_turn_colony(s1, k)
    IN  [s2 EXCEPT !.year = @ + 1]

\* end_turn counting the year only after the first
end_turn_year_after_first(s, soup_cost, oxygen_cost, value_draw, k) ==
    LET s1 == end_turn_prices(s, soup_cost, oxygen_cost, value_draw)
    IN  IF s.year # 0
        THEN [end_turn_colony(s1, k) EXCEPT !.year = @ + 1]
        ELSE s1

end_turn(s, soup_cost, oxygen_cost, value_draw, k) ==
    LET s1 == end_turn_prices(s, soup_cost, oxygen_cost, value_draw)
        s2 == IF s.year # 0 THEN end_turn_colony(s1, k) ELSE s1
    IN  [s2 EXCEPT !.year = @ + 1]

\* DomeState.end_turn, its draws made by a random source that runs low or
\* high, but for the growth draw k
end_turn_drawn(s, luck, k) ==
    end_turn(s, draw(luck, 3, 5 + int_difficulty(s.difficulty)),
                draw(luck, 3, 5 + int_difficulty(s.difficulty)),
                draw(luck, -2, 5), k)

\* modifier = int(self.difficulty) * 10; random.randrange(1, modifier)
GrowthDraws(s) == randrange(1, int_difficulty(s.difficulty) * 10)

(***************************************************************************)
(* DomeState.__init__(difficulty): luck_init is the random source of its   *)
(* own three draws, luck_turn that of its end_turn call (which makes no    *)
(* growth draw, year being 0).                                             *)
(***************************************************************************)
DomeState(difficulty, luck_init, luck_turn) ==
    LET d4 == DIFFICULTY_MULTIPLIER[difficulty + 1]
        credits == (4 * 5000 - 1000 * (d4 - 4)) \div 4
        s0 == [year |-> 0,
               difficulty |-> d4,
               credits |-> credits,
               peak_credits |-> credits,
               colonists |-> 100,
               soup |-> 2000,
               oxygen |-> 3000,
               integrity |-> 100,
               soup_required_per_colonist |->
                   draw(luck_init, 2, 3 + int_difficulty(d4)),
               oxygen_required_per_colonist |->
                   draw(luck_init, 2, 3 + int_difficulty(d4)),
               sculpture_cost |-> draw(luck_init, 2, 3 + int_difficulty(d4)),
               soup_cost |-> 0,
               oxygen_cost |-> 0,
               sculpture_value |-> 0]
    IN  end_turn_drawn(s0, luck_turn, 1)

\* no DomeState has been constructed yet
NoDome == [year |-> 0, difficulty |-> 4, credits |-> 0, peak_credits |-> 0,
           colonists |-> 0, soup |-> 0, oxygen |-> 0, integrity |-> 0,
           soup_required_per_colonist |-> 0,
           oxygen_required_per_colonist |-> 0, sculpture_cost |-> 0,
           soup_cost |-> 0, oxygen_cost |-> 0, sculpture_value |-> 0]

(***************************************************************************)
(* DomeState.perform_maintenance                                           *)
(***************************************************************************)
\* perform_maintenance charging the cost read after the repair
perform_maintenance_repair_first(s) ==
    IF s.integrity = 100 THEN s
    ELSE IF s.credits >= maintenance_cost(s)
         THEN LET r == set_integrity(s, 4 * 100)
              IN  set_credits(r, r.credits - maintenance_cost(r))
         ELSE s

\* perform_maintenance repairing with the credits there are when they do not
\* cover the cost
perform_maintenance_on_credit(s) ==
    IF s.integrity = 100 THEN s
    ELSE IF s.credits >= maintenance_cost(s)
         THEN set_integrity(set_credits(s, s.credits - maintenance_cost(s)),
                            4 * 100)
         ELSE set_integrity(set_credits(s, 0), 4 * 100)

perform_maintenance(s) ==
    IF s.integrity = 100 THEN s
    ELSE IF s.credits >= maintenance_cost(s)
         THEN set_integrity(set_credits(s, s.credits - maintenance_cost(s)),
                            4 * 100)
         ELSE s

(***************************************************************************)
(* Events.  kind, target, [minimum, maximum) of the six Event subclasses,  *)
(* in the order of the events list of lunar_dome (0-indexed there).        *)
(***************************************************************************)
SoupDragon   == [event_type |-> "CALAMITY", commodity |-> "SOUP",
                 minimum |-> 100, maximum |-> 300]
MeteorStrike == [event_type |-> "CALAMITY", commodity |-> "INTEGRITY",
                 minimum |-> 10, maximum |-> 45]
MoonQuake    == [event_type |-> "CALAMITY", commodity |-> "OXYGEN",
                 minimum |-> 100, maximum |-> 300]
IronChicken  == [event_type |-> "BOON", commodity |-> "OXYGEN",
                 minimum |-> 100, maximum |-> 300]
SoupGeyser   == [event_type |-> "BOON", commodity |-> "SOUP",
                 minimum |-> 100, maximum |-> 300]
Astronaut    == [event_type |-> "BOON", commodity |-> "INTEGRITY",
                 minimum |-> 10, maximum |-> 45]

events ==
    <<SoupDragon, MeteorStrike, MoonQuake, IronChicken, SoupGeyser, Astronaut>>

\* the amount with the difficulty applied to a BOON as well
event_amount_boon_scaled(e, value, s) ==
    IF e.event_type = "BOON" THEN value * s.difficulty
    ELSE LET p == value * s.difficulty IN -(IF p < 0 THEN -p ELSE p)

\* Event.apply_event, the amount: in quarters, value for a BOON and
\* -abs(value * difficulty) for a CALAMITY
event_amount(e, value, s) ==
    IF e.event_type = "BOON" THEN 4 * value
    ELSE LET p == value * s.difficulty IN -(IF p < 0 THEN -p ELSE p)

\* Event.apply_event, the commodity adjustment
apply_event(e, value, s) ==
    LET amount == event_amount(e, value, s)
    IN  CASE e.commodity = "OXYGEN"    -> set_oxygen(s, 4 * s.oxygen + amount)
          [] e.commodity = "SOUP"      -> set_soup(s, 4 * s.soup + amount)
          [] e.commodity = "INTEGRITY" ->
                 set_integrity(s, 4 * s.integrity + amount)

\* the Python type of amount in apply_event: value is an int, and so is the
\* product with the multipliers 1 and 2 of DIFFICULTY_MULTIPLIER; the product
\* with 1.25, 1.5 or 1.75 is a float
amount_type(e, s) ==
    IF e.event_type = "CALAMITY" /\ s.difficulty \notin {4, 8}
    THEN "float" ELSE "int"

\* Event.__display formats abs(amount) with {units:,d}: an int is accepted,
\* a float raises ValueError.  The amount is an int for a BOON, and for a
\* CALAMITY when the multiplier is the int 1 or 2 of DIFFICULTY_MULTIPLIER.
display_raises(e, s) ==
    e.event_type = "CALAMITY" /\ s.difficulty \notin {4, 8}

(***************************************************************************)
(* buy_commodity and make_scupltures, for the amount the player enters.    *)
(***************************************************************************)
can_afford_commodity(commodity, s) ==
    IF commodity = "OXYGEN" THEN s.credits \div s.oxygen_cost
    ELSE s.credits \div s.soup_cost

buy_commodity(commodity, s, units) ==
    LET cost_per_unit ==
            IF commodity = "OXYGEN" THEN s.oxygen_cost ELSE s.soup_cost
        bought ==
            IF commodity = "OXYGEN" THEN set_oxygen(s, 4 * (s.oxygen + units))
            ELSE set_soup(s, 4 * (s.soup + units))
    IN  IF units > 0
        THEN set_credits(bought, bought.credits - units * cost_per_unit)
        ELSE s

can_afford_sculptures(s) == s.oxygen \div s.sculpture_cost

make_scupltures(s, sculptures) ==
    LET sculpture_profit == s.sculpture_value * sculptures
        sculpture_oxygen_usage == sculptures * s.sculpture_cost
        used == set_oxygen(s, 4 * (s.oxygen - sculpture_oxygen_usage))
    IN  IF sculptures > 0
        THEN set_credits(used, used.credits + sculpture_profit)
        ELSE s

\* get_amount(prompt, 0, maximum): the amounts the player is taken to enter
get_amount(maximum) == {0, maximum}

(***************************************************************************)
(* ScoreEntry.  A text (a player name, a CSV record, the score file) is a  *)
(* sequence of one-character strings.                                      *)
(***************************************************************************)
\* Score Table Field Position Constants
PLAYER == 0
YEARS == 1
COLONISTS == 2
PEAK_CREDITS == 3

Digits == <<"0", "1", "2", "3", "4", "5", "6", "7", "8", "9">>

\* str(n) of an int n >= 0, as the f-string of toCSV formats it
RECURSIVE str(_)
str(n) ==
    IF n < 10 THEN <<Digits[n + 1]>>
    ELSE str(n \div 10) \o <<Digits[(n % 10) + 1]>>

\* text.strip(): the white space int() ignores around the digits
RECURSIVE strip(_)
strip(text) ==
    IF text = <<>> THEN text
    ELSE IF Head(text) \in {" ", "\n"} THEN strip(Tail(text))
    ELSE IF text[Len(text)] \in {" ", "\n"}
         THEN strip(SubSeq(text, 1, Len(text) - 1))
    ELSE text

\* the value of a run of decimal digits
RECURSIVE digits_value(_)
digits_value(text) ==
    IF text = <<>> THEN 0
    ELSE 10 * digits_value(SubSeq(text, 1, Len(text) - 1))
         + (CHOOSE d \in 0..9 : Digits[d + 1] = text[Len(text)])

\* int(text) of a decimal field
int(text) == digits_value(strip(text))

\* text.split(","): the fields between the commas
RECURSIVE split(_)
split(text) ==
    IF \A i \in 1..Len(text) : text[i] # "," THEN <<text>>
    ELSE LET c == CHOOSE i \in 1..Len(text) :
                      text[i] = "," /\ \A j \in 1..(i - 1) : text[j] # ","
         IN  <<SubSeq(text, 1, c - 1)>> \o split(SubSeq(text, c + 1, Len(text)))

\* the player setter without the cut to 20 characters
player_setter_uncut(value) ==
    SelectSeq(value, LAMBDA c : c # ",")

\* player.setter: value.replace(",", "")[:20]
player_setter(value) ==
    LET replaced == SelectSeq(value, LAMBDA c : c # ",")
    IN  SubSeq(replaced, 1, IF Len(replaced) < 20 THEN Len(replaced) ELSE 20)

\* ScoreEntry.__init__
ScoreEntry(player, year, colonists, peak_credits) ==
    [player |-> player_setter(player), years |-> year,
     colonists |-> colonists, peak_credits |-> peak_credits]

\* ScoreEntry.__gt__ with a strict last comparison
gt_strict(self, other) ==
    IF self.years > other.years THEN TRUE
    ELSE IF self.years = other.years /\ self.colonists > other.colonists
         THEN TRUE
    ELSE IF /\ self.years = other.years
            /\ self.colonists = other.colonists
            /\ self.peak_credits > other.peak_credits
         THEN TRUE
    ELSE FALSE

\* ScoreEntry.__gt__
gt(self, other) ==
    IF self.years > other.years THEN TRUE
    ELSE IF self.years = other.years /\ self.colonists > other.colonists
         THEN TRUE
    ELSE IF /\ self.years = other.years
            /\ self.colonists = other.colonists
            /\ self.peak_credits >= other.peak_credits
         THEN TRUE
    ELSE FALSE

\* ScoreEntry.fromDomeState
fromDomeState(dome_state) ==
    ScoreEntry(<<>>, dome_state.year, dome_state.colonists,
               dome_state.peak_credits)

\* ScoreEntry.fromCSV reading colonists and peak_credits from each other's field
fromCSV_fields_swapped(csv_string) ==
    LET fields == split(csv_string)
    IN  ScoreEntry(fields[PLAYER + 1], int(fields[YEARS + 1]),
                   int(fields[PEAK_CREDITS + 1]), int(fields[COLONISTS + 1]))

\* ScoreEntry.fromCSV
fromCSV(csv_string) ==
    LET fields == split(csv_string)
    IN  ScoreEntry(fields[PLAYER + 1], int(fields[YEARS + 1]),
                   int(fields[COLONISTS + 1]), int(fields[PEAK_CREDITS + 1]))

\* ScoreEntry.toCSV
toCSV(self) ==
    self.player \o <<",">> \o str(self.years) \o <<",">>
        \o str(self.colonists) \o <<",">> \o str(self.peak_credits)
        \o <<"\n">>

(***************************************************************************)
(* ScoreTable.  scores is a sequence of ScoreEntry records; the score file *)
(* is absent or holds a text.                                              *)
(***************************************************************************)
MajorClanger ==
    <<"M", "a", "j", "o", "r", " ", "C", "l", "a", "n", "g", "e", "r">>

\* ScoreTable.__init__: for year in range(11, 1, -1)
ScoreTable ==
    [i \in 1..10 |->
        LET year == 12 - i
        IN  ScoreEntry(MajorClanger, year + 5, 100 + (year * 5),
                       5000 + (1000 * year))]

\* is_high_score asking the candidate to beat every entry
is_high_score_beats_all(scores, candidate_score) ==
    IF Len(scores) = 0 THEN TRUE
    ELSE \A i \in 1..Len(scores) : gt(candidate_score, scores[i])

\* ScoreTable.is_high_score
is_high_score(scores, candidate_score) ==
    IF Len(scores) = 0 THEN TRUE
    ELSE \E i \in 1..Len(scores) : gt(candidate_score, scores[i])

\* the sort key (x.years, x.colonists, x.peak_credits), compared as tuples
key_less(x, y) ==
    \/ x.years < y.years
    \/ x.years = y.years /\ x.colonists < y.colonists
    \/ /\ x.years = y.years /\ x.colonists = y.colonists
       /\ x.peak_credits < y.peak_credits

\* list.sort(key = ..., reverse = True): descending and stable, an entry
\* goes behind the entries before it in the list that have an equal key
RECURSIVE sort(_)
sort(scores) ==
    IF scores = <<>> THEN <<>>
    ELSE LET front == sort(SubSeq(scores, 1, Len(scores) - 1))
             x == scores[Len(scores)]
             ahead == Cardinality({i \in 1..Len(front) : ~key_less(front[i], x)})
         IN  SubSeq(front, 1, ahead) \o <<x>>
                 \o SubSeq(front, ahead + 1, Len(front))

\* add_score dropping the first entry of the sorted list
add_score_pops_first(scores, score) ==
    LET sorted == sort(Append(scores, score))
    IN  IF Len(sorted) > 10 THEN Tail(sorted) ELSE sorted

\* ScoreTable.add_score
add_score(scores, score) ==
    LET sorted == sort(Append(scores, score))
    IN  IF Len(sorted) > 10
        THEN SubSeq(sorted, 1, Len(sorted) - 1) ELSE sorted

\* no file scores.csv
NoFile == [exists |-> FALSE, text |-> <<>>]

\* ScoreTable.save: the CSV records of the scores, written as one text
RECURSIVE csv_data(_)
csv_data(scores) ==
    IF scores = <<>> THEN <<>>
    ELSE toCSV(Head(scores)) \o csv_data(Tail(scores))

save(scores) == [exists |-> TRUE, text |-> csv_data(scores)]

\* score_file.readlines(): the lines of a text, each with its "\n"
RECURSIVE readlines(_)
readlines(text) ==
    IF text = <<>> THEN <<>>
    ELSE IF \A i \in 1..Len(text) : text[i] # "\n" THEN <<text>>
    ELSE LET n == CHOOSE i \in 1..Len(text) :
                      text[i] = "\n" /\ \A j \in 1..(i - 1) : text[j] # "\n"
         IN  <<SubSeq(text, 1, n)>> \o readlines(SubSeq(text, n + 1, Len(text)))

\* load replacing the entries by the lines of the file however many there are
load_replaces_always(scores, file) ==
    IF ~file.exists THEN scores
    ELSE LET score_entries == readlines(file.text)
         IN  [i \in 1..Len(score_entries) |-> fromCSV(score_entries[i])]

\* ScoreTable.load
load(scores, file) ==
    IF ~file.exists THEN scores
    ELSE LET score_entries == readlines(file.text)
         IN  IF Len(score_entries) > 0
             THEN [i \in 1..Len(score_entries) |-> fromCSV(score_entries[i])]
             ELSE scores

\* load_and_show_score_table
load_and_show_score_table(file) == load(ScoreTable, file)

\* high_score(score_table, dome_state) for the ScoreEntry of the dome and the
\* name get_player_name returns: the new scores and the new file
high_score(scores, file, score_entry, player) ==
    IF ~is_high_score(scores, score_entry)
    THEN [scores |-> scores, file |-> file]
    ELSE LET named == [score_entry EXCEPT !.player = player_setter(player)]
             added == add_score(scores, named)
         IN  [scores |-> added, file |-> save(added)]

\* get_player_name: input()[:20], asked again while empty; the names the
\* player is taken to enter
PlayerNames == { <<"A", "l">>, <<"B", ",", "o">> }

(***************************************************************************)
(* lunar_dome: the replay loop and the main game loop.                     *)
(***************************************************************************)
\* no event applied
NoTurnEvent == [index |-> -1, value |-> 0, amount |-> 0, units_type |-> "int"]

\* ScoreTable() as load_and_show_score_table constructs it, before its load();
\* no score file on disk
Init ==
    /\ pc = "load_scores"
    /\ dome = NoDome
    /\ turn_event = NoTurnEvent
    /\ score_table = ScoreTable
    /\ score_file = NoFile

\* score_table = load_and_show_score_table(): the load() of the new table
LoadScores ==
    /\ pc = "load_scores"
    /\ score_table' = load(score_table, score_file)
    /\ pc' = "choose_difficulty"
    /\ UNCHANGED <<dome, turn_event, score_file>>

\* difficulty = choose_difficulty(); dome = DomeState(difficulty)
NewGame ==
    /\ pc = "choose_difficulty"
    /\ \E difficulty \in DifficultyIndex, luck_init \in Luck, luck_turn \in Luck :
          dome' = DomeState(difficulty, luck_init, luck_turn)
    /\ pc' = "loop"
    /\ UNCHANGED <<turn_event, score_table, score_file>>

\* while dome.is_viable: the test succeeds and a turn starts
StartTurn ==
    /\ pc = "loop"
    /\ is_viable(dome)
    /\ dome.year < MaxYear
    /\ pc' = "random_event"
    /\ UNCHANGED <<dome, turn_event, score_table, score_file>>

\* while dome.is_viable: the test fails and the loop is left
LeaveLoop ==
    /\ pc = "loop"
    /\ ~is_viable(dome)
    /\ pc' = "game_over"
    /\ UNCHANGED <<dome, turn_event, score_table, score_file>>

\* random_event(events, dome): the 1-in-10 draw fails
NoEvent ==
    /\ pc = "random_event"
    /\ pc' = "buy_soup"
    /\ UNCHANGED <<dome, turn_event, score_table, score_file>>

\* random_event(events, dome): the draw random.randrange(0, len(events) - 1)
\* is i, and events[i] is applied and displayed
RandomEventApplies(i) ==
    /\ pc = "random_event"
    /\ i \in randrange(0, Len(events) - 1)
    /\ \E value \in extremes(events[i + 1].minimum, events[i + 1].maximum) :
          /\ dome' = apply_event(events[i + 1], value, dome)
          /\ turn_event' = [index |-> i, value |-> value,
                            amount |-> event_amount(events[i + 1], value, dome),
                            units_type |-> amount_type(events[i + 1], dome)]
          /\ pc' = IF display_raises(events[i + 1], dome)
                   THEN "crashed" ELSE "buy_soup"
    /\ UNCHANGED <<score_table, score_file>>

RandomEvent == \E i \in 0..(Len(events) - 1) : RandomEventApplies(i)

\* buy_commodity(Commodity.SOUP, dome); the event of the turn, if any, has
\* been shown
BuySoup ==
    /\ pc = "buy_soup"
    /\ \E units \in get_amount(can_afford_commodity("SOUP", dome)) :
          dome' = buy_commodity("SOUP", dome, units)
    /\ pc' = "buy_oxygen"
    /\ turn_event' = NoTurnEvent
    /\ UNCHANGED <<score_table, score_file>>

BuyOxygen ==
    /\ pc = "buy_oxygen"
    /\ \E units \in get_amount(can_afford_commodity("OXYGEN", dome)) :
          dome' = buy_commodity("OXYGEN", dome, units)
    /\ pc' = "make_scupltures"
    /\ UNCHANGED <<turn_event, score_table, score_file>>

MakeSculptures ==
    /\ pc = "make_scupltures"
    /\ \E sculptures \in get_amount(can_afford_sculptures(dome)) :
          dome' = make_scupltures(dome, sculptures)
    /\ pc' = "perform_maintenance"
    /\ UNCHANGED <<turn_event, score_table, score_file>>

PerformMaintenance ==
    /\ pc = "perform_maintenance"
    /\ dome' = perform_maintenance(dome)
    /\ pc' = "end_turn"
    /\ UNCHANGED <<turn_event, score_table, score_file>>

EndTurn ==
    /\ pc = "end_turn"
    /\ \E luck \in Luck,
          k \in extremes(1, int_difficulty(dome.difficulty) * 10) :
          dome' = end_turn_drawn(dome, luck, k)
    /\ pc' = "loop"
    /\ UNCHANGED <<turn_event, score_table, score_file>>

\* game_over(dome); high_score(score_table, dome)
GameOver ==
    /\ pc = "game_over"
    /\ \E player \in PlayerNames :
          LET after == high_score(score_table, score_file,
                                  fromDomeState(dome), player)
          IN  /\ score_table' = after.scores
              /\ score_file' = after.file
    /\ pc' = "play_again"
    /\ UNCHANGED <<dome, turn_event>>

\* get_yes_or_no("Play again?") answers yes: the replay loop goes round, and
\* the finished DomeState, which nothing reads again, is dropped
PlayAgain ==
    /\ pc = "play_again"
    /\ pc' = "choose_difficulty"
    /\ dome' = NoDome
    /\ UNCHANGED <<turn_event, score_table, score_file>>

\* get_yes_or_no("Play again?") answers no: break
Quit ==
    /\ pc = "play_again"
    /\ pc' = "done"
    /\ UNCHANGED <<dome, turn_event, score_table, score_file>>

Next ==
    \/ LoadScores
    \/ NewGame
    \/ StartTurn
    \/ LeaveLoop
    \/ NoEvent
    \/ RandomEvent
    \/ BuySoup
    \/ BuyOxygen
    \/ MakeSculptures
    \/ PerformMaintenance
    \/ EndTurn
    \/ GameOver
    \/ PlayAgain
    \/ Quit

Spec == Init /\ [][Next]_vars

\* The program does not stop of itself: the interpreter runs the next
\* statement of lunar_dome whenever there is one, and the player answers
\* every prompt.
SpecRunning == Init /\ [][Next]_vars /\ WF_vars(Next)

(***************************************************************************)
(* A DomeState driven by end_turn alone: constructed at any difficulty,    *)
(* then end_turn call after end_turn call with no purchase, no sale, no    *)
(* maintenance and no event, every growth draw of randrange allowed.       *)
(***************************************************************************)
InitEndTurns ==
    /\ pc = "end_turns"
    /\ \E difficulty \in DifficultyIndex, luck_init \in Luck, luck_turn \in Luck :
          dome = DomeState(difficulty, luck_init, luck_turn)
    /\ turn_event = NoTurnEvent
    /\ score_table = ScoreTable
    /\ score_file = NoFile

EndTurnAgain ==
    /\ pc = "end_turns"
    /\ dome.year < MaxTurns
    /\ \E luck \in Luck, k \in GrowthDraws(dome) :
          dome' = end_turn_drawn(dome, luck, k)
    /\ UNCHANGED <<pc, turn_event, score_table, score_file>>

SpecEndTurns == InitEndTurns /\ [][EndTurnAgain]_vars

(***************************************************************************)
(* The score table over the runs of the program.  The file scores.csv is   *)
(* whatever the program saved last or a well-formed file written by hand;  *)
(* a run loads it, plays games and quits, and the next run starts from the *)
(* file the last one left.  A game is taken by its result only: the year,  *)
(* the colonists and the peak credits of the DomeState it ends with.       *)
(***************************************************************************)
ZoeName == <<"Z", "o", "e">>

\* a name of 22 characters
LongName == [i \in 1..22 |-> IF i % 2 = 1 THEN "z" ELSE "o"]

\* line i of a score file written by hand, as the fields typed into it, lines
\* in no particular order: every fifth line a score of 7 years, the others
\* scores of 11 to 15 years; every third line under a name of 22 characters
hand_written(i) ==
    [player |-> IF i % 3 = 0 THEN LongName ELSE ZoeName,
     years |-> IF i % 5 = 0 THEN 7 ELSE 11 + ((i * 3) % 5),
     colonists |-> 100 + i, peak_credits |-> 5000 + (100 * i)]

\* the scores.csv files a run can find: none, or one of 0, 1, 3,
\* MaxLines - 1 and MaxLines lines
ScoreFiles ==
    {NoFile} \cup
    { [exists |-> TRUE, text |-> csv_data([i \in 1..n |-> hand_written(i)])] :
          n \in {0, 1, 3, MaxLines - 1, MaxLines} }

\* the DomeState a game ends with, as fromDomeState reads it
FinishedDome(year, colonists, peak_credits) ==
    [NoDome EXCEPT !.year = year, !.colonists = colonists,
                   !.peak_credits = peak_credits]

\* results of finished games: below every default entry in years, below the
\* lowest default entry in colonists only, equal to the lowest default entry,
\* and among the default entries
FinishedDomes ==
    { FinishedDome(6, 100, 6000), FinishedDome(7, 105, 9000),
      FinishedDome(7, 110, 7000), FinishedDome(10, 125, 9000) }

InitScores ==
    /\ pc = "load_scores"
    /\ dome = NoDome
    /\ turn_event = NoTurnEvent
    /\ score_table = ScoreTable
    /\ score_file \in ScoreFiles

\* a whole game, from choose_difficulty to the end of the main game loop
PlayGame ==
    /\ pc = "choose_difficulty"
    /\ dome' \in FinishedDomes
    /\ pc' = "game_over"
    /\ UNCHANGED <<turn_event, score_table, score_file>>

\* the program is started again: a new ScoreTable(), the file as it was left
Restart ==
    /\ pc = "done"
    /\ score_table' = ScoreTable
    /\ pc' = "load_scores"
    /\ UNCHANGED <<dome, turn_event, score_file>>

NextScores ==
    \/ LoadScores
    \/ PlayGame
    \/ GameOver
    \/ PlayAgain
    \/ Quit
    \/ Restart

SpecScores == InitScores /\ [][NextScores]_vars

(***************************************************************************)
(* Properties.                                                             *)
(***************************************************************************)
Max0(x) == IF x > 0 THEN x ELSE 0

\* the steps of one turn of the main game loop
TurnSteps == {"random_event", "buy_soup", "buy_oxygen", "make_scupltures",
              "perform_maintenance", "end_turn"}

AllStocksPositive(s) == s.oxygen > 0 /\ s.soup > 0 /\ s.integrity > 0

\* C1: the game loop tests viability only at the top of an iteration.  From
\* the top of the loop a turn starts if oxygen, soup and integrity are all
\* above 0 and the game is over otherwise; a turn starts and the game ends
\* from nowhere else; a turn once started runs through its steps back to the
\* top of the loop (or stops in an error) whatever the stocks are; and after
\* the game is over the dome is not touched again.
C1_ViabilityTestedAtLoopTop ==
    [][ /\ pc = "loop" =>
              /\ dome' = dome
              /\ IF AllStocksPositive(dome)
                 THEN pc' = "random_event" ELSE pc' = "game_over"
        /\ pc' = "random_event" => pc = "loop"
        /\ pc' = "game_over" => pc = "loop"
        /\ pc \in TurnSteps => pc' \in TurnSteps \cup {"loop", "crashed"}
        /\ pc = "game_over" => dome' = dome /\ pc' = "play_again"
      ]_vars

\* C1 witness: a game is over after two turns were played
C1_Witness == pc = "game_over" /\ dome.year = 3

\* C2: in every reachable state credits, colonists, soup and oxygen are
\* integers >= 0 and integrity is an integer of 0..100.
C2_StocksInRange ==
    /\ dome.credits \in Nat
    /\ dome.colonists \in Nat
    /\ dome.soup \in Nat
    /\ dome.oxygen \in Nat
    /\ dome.integrity \in 0..100

\* C2 witness: a turn ended with the oxygen used up and the integrity hit
C2_Witness ==
    pc = "loop" /\ dome.year = 2 /\ dome.oxygen = 0 /\ dome.integrity < 50

\* C3: an end_turn call made when year >= 1 takes colonists x
\* soup_required_per_colonist from soup and colonists x
\* oxygen_required_per_colonist from oxygen, each result clamped at 0, with
\* the colonists counted before the growth of that call.
C3_ConsumptionByOldColonists ==
    [][ (pc = "end_turn" /\ dome.year >= 1) =>
           /\ dome'.soup = Max0(dome.soup
                  - dome.colonists * dome.soup_required_per_colonist)
           /\ dome'.oxygen = Max0(dome.oxygen
                  - dome.colonists * dome.oxygen_required_per_colonist)
      ]_vars

\* C3 witness: the first turn ended with 100 colonists fed and more living
C3_Witness ==
    /\ pc = "loop" /\ dome.year = 2 /\ dome.colonists > 100
    /\ dome.soup = 2000 - 100 * dome.soup_required_per_colonist

C5_GrowthIsExactPercent ==
    [][ (pc = "end_turns" /\ dome.year >= 1) =>
           /\ \E k \in 1..(int_difficulty(dome.difficulty) * 10 - 1) :
                 dome'.colonists = (dome.colonists * (100 + k)) \div 100
           /\ dome'.colonists > dome.colonists
      ]_vars

\* the credits a game starts with, by difficulty index
StartingCredits == <<5000, 4750, 4500, 4250, 4000>>

\* C6: right after construction at difficulty index i the state is year 1,
\* 100 colonists, 2000 soup, 3000 oxygen, integrity 100 and credits =
\* peak_credits = 5000 - 1000 x (multiplier - 1).
C6_StateAfterConstruction ==
    (pc = "loop" /\ dome.year <= 1) =>
        /\ dome.year = 1
        /\ dome.colonists = 100
        /\ dome.soup = 2000
        /\ dome.oxygen = 3000
        /\ dome.integrity = 100
        /\ \E i \in DifficultyIndex :
              /\ dome.difficulty = DIFFICULTY_MULTIPLIER[i + 1]
              /\ dome.credits = StartingCredits[i + 1]
              /\ dome.peak_credits = StartingCredits[i + 1]

\* C6 witness: a game constructed at difficulty index 3
C6_Witness ==
    pc = "loop" /\ dome.year = 1 /\ dome.difficulty = 7 /\ dome.credits = 4250

\* C7: construction leaves year = 1, every end_turn call adds exactly 1 to
\* year, and no other operation of a game changes it.
C7_YearCountsEndTurns ==
    [][ /\ pc = "choose_difficulty" => dome'.year = 1
        /\ pc = "end_turn" => dome'.year = dome.year + 1
        /\ pc \notin {"choose_difficulty", "end_turn", "play_again"} =>
               dome'.year = dome.year
      ]_vars

\* C7 witness: construction and two end_turn calls
C7_Witness == pc = "loop" /\ dome.year = 3

\* C8: peak_credits is a high-water mark of credits.  After every operation
\* of a game peak_credits >= credits, peak_credits has not decreased, and
\* if it changed then credits was set above the old peak and the peak
\* equals the new credits.
C8_PeakIsHighWaterMark ==
    [][ pc \notin {"choose_difficulty", "play_again"} =>
           /\ dome'.peak_credits >= dome'.credits
           /\ dome'.peak_credits >= dome.peak_credits
           /\ dome'.peak_credits # dome.peak_credits =>
                  /\ dome'.credits > dome.peak_credits
                  /\ dome'.peak_credits = dome'.credits
      ]_vars

\* C8 witness: sculptures raised the peak and a purchase then lowered credits
C8_Witness ==
    dome.peak_credits > 5000 /\ dome.credits < dome.peak_credits

\* the cost is 100 x floor((100 - i) x difficulty) at integrity i
CostIsFloorAt(s, i) ==
    LET cost == maintenance_cost([s EXCEPT !.integrity = i])
        exact4 == (100 - i) * s.difficulty * 100
    IN  /\ cost % 100 = 0
        /\ 4 * cost <= exact4
        /\ exact4 < 4 * (cost + 100)
        /\ (cost = 0) <=> (i = 100)

\* C9: for the dome of a game at each difficulty and for every integrity of
\* 0..100, maintenance_cost is 100 x floor((100 - integrity) x difficulty);
\* it is 0 exactly at integrity 100 and grows with every point of integrity
\* lost.  Stated for all integrities on the newly constructed dome of every
\* game, and at the dome's own integrity wherever maintenance is performed.
C9_MaintenanceCostFormula ==
    /\ (pc = "loop" /\ dome.year = 1) =>
           \A i \in 0..100 :
              /\ CostIsFloorAt(dome, i)
              /\ i < 100 =>
                    maintenance_cost([dome EXCEPT !.integrity = i])
                      > maintenance_cost([dome EXCEPT !.integrity = i + 1])
    /\ pc = "perform_maintenance" => CostIsFloorAt(dome, dome.integrity)

\* C9 witness: a worn dome at multiplier 1.75, where the floor cuts 350 to 300
C9_Witness ==
    /\ pc = "perform_maintenance" /\ dome.difficulty = 7
    /\ dome.integrity = 98 /\ maintenance_cost(dome) = 300

\* C10: perform_maintenance called with integrity < 100 and credits >=
\* maintenance_cost leaves integrity = 100 and credits lowered by the
\* maintenance_cost of the integrity before the repair.
C10_MaintenanceRepairs ==
    [][ ( /\ pc = "perform_maintenance"
          /\ dome.integrity < 100
          /\ dome.credits >=
                 100 * (((100 - dome.integrity) * dome.difficulty) \div 4) ) =>
           /\ dome'.integrity = 100
           /\ dome'.credits = dome.credits
                 - 100 * (((100 - dome.integrity) * dome.difficulty) \div 4)
      ]_vars

\* C10 witness: the second turn's repair, paid for
C10_Witness ==
    /\ pc = "end_turn" /\ dome.year = 2 /\ dome.integrity = 100
    /\ dome.credits > 0

\* C11: perform_maintenance called with integrity = 100, or with integrity
\* < 100 and credits < maintenance_cost, leaves the whole DomeState as it
\* was: credits, peak_credits, integrity, soup, oxygen, colonists, year and
\* the prices.
C11_MaintenanceNoOpFrame ==
    [][ ( /\ pc = "perform_maintenance"
          /\ \/ dome.integrity = 100
             \/ /\ dome.integrity < 100
                /\ dome.credits <
                       100 * (((100 - dome.integrity) * dome.difficulty) \div 4) ) =>
           dome' = dome
      ]_vars

\* C11 witness: a worn dome leaves perform_maintenance still worn, its
\* credits short of the cost
C11_Witness ==
    /\ pc = "end_turn" /\ dome.integrity < 100
    /\ dome.credits < maintenance_cost(dome)

\* an event has just been applied
EventApplied == turn_event.index # -1

\* C12: every event application draws its value v in [minimum, maximum); a
\* CALAMITY records the amount -(v x difficulty), which is <= 0, and a BOON
\* records the amount v, not scaled by the difficulty, which is >= 0
\* (amounts in quarters).
C12_AmountSignAndScale ==
    EventApplied =>
        LET e == events[turn_event.index + 1]
            v == turn_event.value
        IN  /\ v \in e.minimum..(e.maximum - 1)
            /\ e.event_type = "CALAMITY" =>
                  /\ turn_event.amount = -(v * dome.difficulty)
                  /\ turn_event.amount <= 0
            /\ e.event_type = "BOON" =>
                  /\ turn_event.amount = 4 * v
                  /\ turn_event.amount >= 0

\* C12 witness: a SoupDragon of 100 at the multiplier 1.5 has taken 150, and
\* an IronChicken of 299 at the multiplier 2 has given 299
C12_Witness ==
    \/ /\ turn_event.index = 0 /\ turn_event.value = 100
       /\ dome.difficulty = 6 /\ turn_event.amount = -600
    \/ /\ turn_event.index = 3 /\ turn_event.value = 299
       /\ dome.difficulty = 8 /\ turn_event.amount = 1196

\* C13: for each event variant and each difficulty index 0..4, applying the
\* event completes normally: it never ends in an error, the magnitude
\* |amount| handed to the message template is an integer, as the template's
\* integer formatting requires, and the display line is produced.
C13_EventDisplayCompletes ==
    EventApplied =>
        /\ turn_event.units_type = "int"
        /\ pc = "buy_soup"

\* C14: when the random event of the turn fires, the variant applied can be
\* any one of the six of the events list: SoupDragon, MeteorStrike,
\* MoonQuake, IronChicken, SoupGeyser and Astronaut can each be the event
\* applied.
C14_AnyOfSixEvents ==
    pc = "random_event" =>
        \A i \in 0..(Len(events) - 1) : ENABLED RandomEventApplies(i)

\* the sort key of a ScoreEntry, as a tuple
key(x) == <<x.years, x.colonists, x.peak_credits>>

\* tuple ka is lexicographically greater than tuple kb
lex_greater(ka, kb) ==
    \E i \in 1..Len(ka) :
        ka[i] > kb[i] /\ \A j \in 1..(i - 1) : ka[j] = kb[j]

\* the entries of the table and the entry of the dome at hand
EntriesAtHand ==
    {score_table[i] : i \in 1..Len(score_table)} \cup {fromDomeState(dome)}

\* C15: for all ScoreEntry pairs a, b, a > b is true if and only if the tuple
\* (years, colonists, peak_credits) of a is lexicographically greater than
\* or equal to that of b; a > a is true, a > b is false whenever a.years <
\* b.years, and of a > b and b > a at least one holds.
C15_GreaterIsLexicographicGeq ==
    \A a \in EntriesAtHand, b \in EntriesAtHand :
        /\ gt(a, b) <=> (key(a) = key(b) \/ lex_greater(key(a), key(b)))
        /\ gt(a, a)
        /\ a.years < b.years => ~gt(a, b)
        /\ gt(a, b) \/ gt(b, a)

\* C15 witness: the game ended level with the lowest entry of the table in
\* years, colonists and peak credits, and another entry has more years
C15_Witness ==
    /\ pc = "game_over"
    /\ \E i \in 1..Len(score_table) :
          key(score_table[i]) = key(fromDomeState(dome))
    /\ \E i \in 1..Len(score_table) :
          score_table[i].years > dome.year

\* candidate ranks at or above some entry of scores
reaches_an_entry(scores, candidate) ==
    \E i \in 1..Len(scores) :
        \/ key(candidate) = key(scores[i])
        \/ lex_greater(key(candidate), key(scores[i]))

\* C16: is_high_score(candidate) is true if and only if the table is empty
\* or candidate > entry holds for at least one entry; on a non-empty table
\* it is false exactly when the candidate ranks strictly below every entry.
\* high_score then leaves table and file alone when it is false, and saves
\* the table when it is true.
C16_HighScoreIffReachesAnEntry ==
    [][ pc = "game_over" =>
          LET candidate == fromDomeState(dome)
              is_high == is_high_score(score_table, candidate)
          IN  /\ is_high <=> ( \/ Len(score_table) = 0
                               \/ \E i \in 1..Len(score_table) :
                                     gt(candidate, score_table[i]) )
              /\ Len(score_table) > 0 =>
                    ( ~is_high <=>
                        \A i \in 1..Len(score_table) :
                            lex_greater(key(score_table[i]), key(candidate)) )
              /\ reaches_an_entry(score_table, candidate) =>
                    score_file' = save(score_table')
              /\ ~reaches_an_entry(score_table, candidate) =>
                    UNCHANGED <<score_table, score_file>>
      ]_vars

\* C16 witness: a game with more peak credits than the lowest default entry
\* but fewer colonists was no high score on the default table, and nothing
\* was saved
C16_Witness ==
    /\ pc = "play_again" /\ dome.year = 7 /\ dome.colonists = 105
    /\ score_table = ScoreTable /\ ~score_file.exists

\* C17: after add_score, on any table reachable through construction, load
\* of a well-formed score file of any number of lines and earlier add_score
\* calls, the table holds at most 10 entries.
C17_AtMostTenAfterAddScore ==
    [][ ( /\ pc = "game_over"
          /\ is_high_score(score_table, fromDomeState(dome)) ) =>
           Len(score_table') <= 10
      ]_vars

\* scores is in descending order of (years, colonists, peak_credits)
sorted_descending(scores) ==
    \A i \in 1..Len(scores), j \in 1..Len(scores) :
        i < j => ~lex_greater(key(scores[j]), key(scores[i]))

\* the number of positions of seq that hold x
count(seq, x) == Cardinality({i \in 1..Len(seq) : seq[i] = x})

\* after holds the entries of before, less the entries of dropped
is_rest(after, before, dropped) ==
    \A i \in 1..Len(before) :
        count(after, before[i]) + count(dropped, before[i])
            = count(before, before[i])

\* C18: after every add_score the entries are sorted descending by (years,
\* colonists, peak_credits); the table holds the old entries and the new
\* one, and when an entry is dropped it is a lowest-ranked one, never an
\* entry ranked strictly above a kept entry.
C18_SortedAndLowestDropped ==
    [][ ( /\ pc = "game_over"
          /\ is_high_score(score_table, fromDomeState(dome)) ) =>
           /\ sorted_descending(score_table')
           /\ \E player \in PlayerNames :
                 LET all == Append(score_table,
                                   [fromDomeState(dome) EXCEPT
                                        !.player = player_setter(player)])
                 IN  IF Len(all) > 10
                     THEN \E d \in 1..Len(all) :
                             /\ is_rest(score_table', all, <<all[d]>>)
                             /\ Len(score_table') = Len(all) - 1
                             /\ \A i \in 1..Len(score_table') :
                                   ~lex_greater(key(all[d]),
                                                key(score_table'[i]))
                     ELSE /\ is_rest(score_table', all, <<>>)
                          /\ Len(score_table') = Len(all)
      ]_vars

\* C18 witness: a new entry stands in the middle of the table, the default
\* entries above 10 years ahead of it and the lowest default entry gone
C18_Witness ==
    /\ pc = "play_again" /\ Len(score_table) = 10
    /\ score_table[8].years = 10 /\ score_table[8].colonists = 125
    /\ score_table[8].peak_credits = 9000
    /\ score_table[7].player = MajorClanger
    /\ score_table[10].years = 8

\* C19: immediately after load of a well-formed, non-empty score file, its
\* records in any order and of any number, the table holds at most 10
\* entries, ranked highest first by (years, colonists, peak_credits).
C19_LoadedTableRankedAndCapped ==
    [][ ( /\ pc = "load_scores"
          /\ score_file.exists /\ score_file.text # <<>> ) =>
           /\ Len(score_table') <= 10
           /\ sorted_descending(score_table')
      ]_vars

\* C20: round trip: save followed by load reproduces the table, built by
\* construction and add_score calls, entry by entry in the same order with
\* equal player, years, colonists and peak_credits; and the table a run
\* loads from the file the run before saved is the table that was saved.
C20_SaveLoadRoundTrip ==
    /\ load(ScoreTable, save(score_table)) = score_table
    /\ (pc = "choose_difficulty" /\ score_file.exists) =>
          \/ score_file = save(score_table)
          \/ score_file \in ScoreFiles

\* C20 witness: a run has loaded the table saved by the run before, which
\* holds an entry of a player who typed a comma in the name
C20_Witness ==
    /\ pc = "choose_difficulty" /\ dome = NoDome
    /\ score_file = save(score_table)
    /\ \E i \in 1..Len(score_table) : score_table[i].player = <<"B", "o">>

\* C21: a freshly constructed table holds exactly 10 placeholder entries
\* ranked highest first, and load from an absent file or from a file with
\* zero records leaves the table exactly as it was before the call, the same
\* entries in the same order.
C21_FreshTableAndEmptyLoad ==
    [][ pc = "load_scores" =>
          /\ Len(score_table) = 10
          /\ \A i \in 1..10 : score_table[i].player = MajorClanger
          /\ \A i \in 1..9 :
                lex_greater(key(score_table[i]), key(score_table[i + 1]))
          /\ (~score_file.exists \/ score_file.text = <<>>) =>
                score_table' = score_table
      ]_vars

\* C21 witness: a run has found a file of zero records and holds the ten
\* placeholder entries, 16 years first and 7 years last
C21_Witness ==
    /\ pc = "choose_difficulty"
    /\ score_file.exists /\ score_file.text = <<>>
    /\ Len(score_table) = 10
    /\ score_table[1].years = 16 /\ score_table[10].years = 7

\* text without its commas
RECURSIVE without_commas(_)
without_commas(text) ==
    IF text = <<>> THEN <<>>
    ELSE IF Head(text) = "," THEN without_commas(Tail(text))
    ELSE <<Head(text)>> \o without_commas(Tail(text))

\* the first 20 characters of text
first_20(text) == [i \in 1..(IF Len(text) < 20 THEN Len(text) ELSE 20) |-> text[i]]

\* a player name with no comma and at most 20 characters
clean_name(name) ==
    Len(name) <= 20 /\ \A i \in 1..Len(name) : name[i] # ","

\* C22: every ScoreEntry, created directly, from a DomeState, from a CSV
\* record or given a player name, has a player name with no comma and at
\* most 20 characters, and the name stored is the given name with the
\* commas removed and then cut to its first 20 characters.
C22_PlayerNameSanitized ==
    [][ /\ \A e \in EntriesAtHand : clean_name(e.player)
        /\ \A i \in 1..Len(score_table') : clean_name(score_table'[i].player)
        /\ fromDomeState(dome).player = <<>>
        /\ ( pc = "load_scores" /\ score_file.exists
               /\ score_file.text # <<>> ) =>
              LET lines == readlines(score_file.text)
              IN  /\ Len(score_table') = Len(lines)
                  /\ \A i \in 1..Len(lines) :
                        score_table'[i].player =
                            first_20(without_commas(split(lines[i])[1]))
        /\ ( pc = "game_over"
               /\ is_high_score(score_table, fromDomeState(dome)) ) =>
              \E player \in PlayerNames :
                  score_table' =
                      add_score(score_table,
                                [fromDomeState(dome) EXCEPT
                                     !.player = first_20(without_commas(player))])
      ]_vars

\* C22 witness: the table holds an entry loaded under a name of 22
\* characters, cut to 20, and the entry of a player who typed B,o
C22_Witness ==
    /\ pc = "play_again"
    /\ \E i \in 1..Len(score_table) :
          Len(score_table[i].player) = 20 /\ score_table[i].player[1] = "z"
    /\ \E i \in 1..Len(score_table) : score_table[i].player = <<"B", "o">>

\* the clamp of a commodity, in quarters: soup and oxygen to >= 0, integrity
\* to [0, 100]
clamp4(commodity, value4) ==
    IF value4 < 0 THEN 0
    ELSE IF commodity = "INTEGRITY" /\ value4 > 4 * 100 THEN 4 * 100
    ELSE value4

\* the stock of a commodity in a DomeState
stock(s, commodity) ==
    CASE commodity = "OXYGEN" -> s.oxygen
      [] commodity = "SOUP" -> s.soup
      [] commodity = "INTEGRITY" -> s.integrity

\* s with the stock of a commodity set
with_stock(s, commodity, units) ==
    CASE commodity = "OXYGEN" -> [s EXCEPT !.oxygen = units]
      [] commodity = "SOUP" -> [s EXCEPT !.soup = units]
      [] commodity = "INTEGRITY" -> [s EXCEPT !.integrity = units]

\* C23: applying an event changes only its targeted commodity: the target
\* becomes old + amount passed through its clamp (soup and oxygen to >= 0,
\* integrity to [0, 100]), and the other two commodities, credits,
\* peak_credits, colonists, year and all prices are unchanged.
C23_EventChangesOnlyTarget ==
    [][ (pc = "random_event" /\ turn_event'.index # -1) =>
          LET e == events[turn_event'.index + 1]
          IN  /\ 4 * stock(dome', e.commodity) =
                     clamp4(e.commodity,
                            4 * stock(dome, e.commodity) + turn_event'.amount)
              /\ dome' = with_stock(dome, e.commodity, stock(dome', e.commodity))
      ]_vars

\* the fields of a DomeState fixed at construction
fixed_at_construction(s) ==
    <<s.soup_required_per_colonist, s.oxygen_required_per_colonist,
      s.sculpture_cost, s.difficulty>>

\* the prices of a DomeState
prices(s) == <<s.soup_cost, s.oxygen_cost, s.sculpture_value>>

\* C24: soup_required_per_colonist, oxygen_required_per_colonist,
\* sculpture_cost and difficulty keep the values set at construction through
\* every end_turn, event, purchase, sculpture sale and maintenance of the
\* game; the prices soup_cost, oxygen_cost and sculpture_value change in
\* end_turn only, which draws soup_cost and oxygen_cost from
\* randrange(3, 5 + int(difficulty)) and sets sculpture_value to
\* oxygen_cost x sculpture_cost + randrange(-2, 5).
C24_RequirementsFixedPricesRerolled ==
    [][ (pc \in TurnSteps \cup {"loop", "game_over"}) =>
          /\ fixed_at_construction(dome') = fixed_at_construction(dome)
          /\ pc # "end_turn" => prices(dome') = prices(dome)
          /\ pc = "end_turn" =>
                /\ dome'.soup_cost \in
                       randrange(3, 5 + int_difficulty(dome.difficulty))
                /\ dome'.oxygen_cost \in
                       randrange(3, 5 + int_difficulty(dome.difficulty))
                /\ dome'.sculpture_value
                       - dome'.oxygen_cost * dome.sculpture_cost
                       \in randrange(-2, 5)
      ]_vars

\* C24 witness: in the third year the prices stand high where the game began
\* with them low, the requirements as constructed
C24_Witness ==
    /\ pc = "loop" /\ dome.year = 3 /\ dome.difficulty = 8
    /\ dome.soup_cost = 6 /\ dome.oxygen_cost = 6
    /\ dome.soup_required_per_colonist = 2 /\ dome.sculpture_cost = 2

\* C25: is_medium_or_lower_difficulty is true exactly when the game is
\* played at the middle level of the five or below it (difficulty indices 0,
\* 1, 2; multipliers 1, 1.25, 1.5) and false at indices 3 and 4.
C25_MediumOrLowerIsIndexUpTo2 ==
    pc \in TurnSteps \cup {"loop", "game_over"} =>
        ( is_medium_or_lower_difficulty(dome) <=>
              dome.difficulty \in {DIFFICULTY_MULTIPLIER[1],
                                   DIFFICULTY_MULTIPLIER[2],
                                   DIFFICULTY_MULTIPLIER[3]} )

\* C26: every game ends: from the constructed state at any difficulty,
\* under any player choices and any random draws and events, the loop
\* reaches a top-of-iteration state where is_viable is false after finitely
\* many turns.  The model plays turns while year < MaxYear, so a game still
\* viable at the top of the loop in the year MaxYear counts as on its way.
C26_EveryGameEnds ==
    <>( /\ pc = "loop"
        /\ ~is_viable(dome) \/ dome.year >= MaxYear )

\* C27: a candidate that qualifies is kept: whenever is_high_score(c) is true
\* and c is then added with add_score, as high_score() does, the table
\* afterwards contains c, the entry of the new player; also when the table
\* has 10 entries and c equals the lowest-ranked one on years, colonists and
\* peak_credits.
C27_QualifyingCandidateKept ==
    [][ ( /\ pc = "game_over"
          /\ is_high_score(score_table, fromDomeState(dome)) ) =>
           \E player \in PlayerNames, i \in 1..Len(score_table') :
               score_table'[i] = [fromDomeState(dome) EXCEPT
                                      !.player = player_setter(player)]
      ]_vars

====
